---- MODULE Spec2Model ----
(***************************************************************************)
(* Model of the RepoPush repository-management code:                       *)
(*   - the get-repo-contents edge function                                 *)
(*     (src/supabase/functions/get-repo-contents/index.ts), one invocation *)
(*     of the Deno.serve handler, one action per await/branch;             *)
(*   - the RepositorySettingsDialog component (src/unnamed/part_000).      *)
(* Strings that are built or inspected (error messages, upstream bodies)   *)
(* are sequences of tokens, so that "message contains a fragment of the    *)
(* body" is a property of the sequences.                                   *)
(***************************************************************************)
EXTENDS Integers, Sequences, FiniteSets, TLC

\* ------------------------------------------------------------------ bounds
\* longest non-JSON upstream body, in tokens
MaxBodyLen == 2

\* ------------------------------------------------------------ JS values
\* undefined (an absent field) and null, as values distinct from every string
Absent == "$undefined"
Null == "$null"

\* JavaScript truthiness of a string-or-undefined-or-null value
Truthy(v) == v \notin {Absent, Null, ""}

\* all sequences over S of length 0..n
RECURSIVE SeqsUpTo(_, _)
SeqsUpTo(S, n) ==
    IF n = 0 THEN {<<>>}
    ELSE LET shorter == SeqsUpTo(S, n - 1)
         IN  shorter \cup {Append(s, x) : s \in {t \in shorter : Len(t) = n - 1}, x \in S}

\* a message or body contains a fragment (here: a token) of text
ContainsFragment(msg, text) ==
    \E i \in DOMAIN msg, j \in DOMAIN text : msg[i] = text[j]

\* --------------------------------------------------------------- headers
corsHeaders ==
    { <<"Access-Control-Allow-Origin", "*">>,
      <<"Access-Control-Allow-Headers", "authorization, x-client-info, apikey, content-type">> }

\* { ...corsHeaders, 'Content-Type': 'application/json' }
JsonHeaders == corsHeaders \cup { <<"Content-Type", "application/json">> }

NoCacheHeaders ==
    { <<"Cache-Control", "no-cache, no-store, must-revalidate">>,
      <<"Pragma", "no-cache">>,
      <<"Expires", "0">> }

\* headers of the success response
SuccessHeaders == JsonHeaders \cup NoCacheHeaders

\* ------------------------------------------------------- request inputs
Owners == {"alice", "bob", "bad owner", Absent}
Repos == {"demo", Absent}
Paths == {Absent, "src"}
Refs == {Absent, "", "dev"}
Tokens == {Absent, "", "tok"}

\* a body req.json() cannot parse, the JSON value null, or a JSON object
MalformedBody == [kind |-> "malformed"]
NullBody == [kind |-> "null"]
ObjectBodies ==
    [kind : {"object"}, owner : Owners, repo : Repos, path : Paths, ref : Refs,
     provider_token : Tokens]

Requests ==
    [method : {"OPTIONS", "POST"}, body : {MalformedBody, NullBody} \cup ObjectBodies]

\* ------------------------------------------------------------ validation
\* ownerField / repoField of _shared/validation.ts: a non-empty slug
SlugOk(v) == v \in {"alice", "bob", "demo"}

\* mutant: z.string() without .min(1)
TokenErrorsNoMin(t) ==
    IF t = Absent THEN { <<"provider_token", "Required">> } ELSE {}

\* z.string().min(1, 'GitHub token required')
TokenErrors(t) ==
    IF t = Absent THEN { <<"provider_token", "Required">> }
    ELSE IF t = "" THEN { <<"provider_token", "GitHub token required">> }
    ELSE {}

\* validation.error.errors of getContentsSchema.safeParse(body), as {path, message}
SchemaErrors(body) ==
    IF body.kind # "object" THEN { <<"", "Expected object">> }
    ELSE (IF body.owner = Absent THEN { <<"owner", "Required">> }
          ELSE IF ~SlugOk(body.owner) THEN { <<"owner", "Invalid">> } ELSE {})
         \cup
         (IF body.repo = Absent THEN { <<"repo", "Required">> }
          ELSE IF ~SlugOk(body.repo) THEN { <<"repo", "Invalid">> } ELSE {})
         \cup TokenErrors(body.provider_token)

\* validation.data: path defaults to '', ref stays optional
SchemaData(body) ==
    [owner |-> body.owner, repo |-> body.repo,
     path |-> IF body.path = Absent THEN "" ELSE body.path,
     ref |-> body.ref, provider_token |-> body.provider_token]

NoData == [owner |-> Absent, repo |-> Absent, path |-> Absent, ref |-> Absent,
           provider_token |-> Absent]

\* ------------------------------------------------------ identity lookups
Users == {Null, "u1"}

NullProfile == [kind |-> "null"]
UnsetProfile == [kind |-> "unset"]
Profiles ==
    {NullProfile} \cup [kind : {"row"}, github_username : {Null, "", "alice"}]

\* profile?.github_username
GithubUsername(p) == IF p.kind = "row" THEN p.github_username ELSE Absent

\* ------------------------------------------------------- upstream bodies
RawTokens == {"<html>", "Bad credentials"}
RawTexts == SeqsUpTo(RawTokens, MaxBodyLen)

Branches == {"main", "dev"}

\* JSON.stringify of a repository object of the GitHub API
MetaText(m) ==
    <<"{", m.name, m.full_name, IF m.private THEN "true" ELSE "false", m.default_branch, "}">>

Metadatas ==
    [name : {"demo"}, full_name : {"alice/demo"}, private : BOOLEAN,
     default_branch : Branches]

MetaTexts == {MetaText(m) : m \in Metadatas}

ContentTexts == { <<"[", "README.md", "]">>, <<"[", "]">> }

NullText == <<"null">>

Texts == RawTexts \cup MetaTexts \cup ContentTexts \cup {NullText}

\* Response.json(): JSON.parse of the body text. A SyntaxError's message quotes
\* the offending token and the source text.
JsonParse(text) ==
    IF text = <<>> THEN
        [ok |-> FALSE, message |-> <<"Unexpected end of JSON input">>]
    ELSE IF text = NullText THEN
        [ok |-> TRUE, value |-> [kind |-> "null"]]
    ELSE IF text[1] = "{" /\ Len(text) = 6 /\ text[6] = "}" THEN
        [ok |-> TRUE,
         value |-> [kind |-> "object", name |-> text[2], full_name |-> text[3],
                    private |-> (text[4] = "true"), default_branch |-> text[5]]]
    ELSE IF text[1] = "[" /\ text[Len(text)] = "]" THEN
        [ok |-> TRUE,
         value |-> [kind |-> "array",
                    items |-> [i \in 1..(Len(text) - 2) |-> [name |-> text[i + 1]]]]]
    ELSE
        [ok |-> FALSE,
         message |-> <<"Unexpected token", text[1]>> \o text \o <<"is not valid JSON">>]

Statuses == {200, 204, 401, 403, 404, 422, 500, 502, 418}

\* Response.ok
Ok(status) == status >= 200 /\ status <= 299

\* mutant: only server errors are treated as failures
UpstreamFailedOnly5xx(response) == response.status >= 500

\* if (!repoResponse.ok) / if (!githubResponse.ok)
UpstreamFailed(response) == ~Ok(response.status)

NoResponse == [status |-> 0, text |-> <<>>]

\* what awaiting fetch() yields: a rejection (network failure) or a Response
NetworkFailure == [kind |-> "reject"]
UpstreamOutcomes ==
    {NetworkFailure} \cup [kind : {"response"}, status : Statuses, text : Texts]

\* ------------------------------------------------------- error sanitizer
\* sanitizeGitHubError(status, rawError) of _shared/error-sanitizer.ts: a fixed
\* table from the upstream status to {status, message}; the raw body is not used
sanitizeGitHubError(status, rawError) ==
    CASE status = 401 -> [status |-> 401, message |-> <<"GitHub authentication failed">>]
      [] status = 403 -> [status |-> 403, message |-> <<"GitHub authentication failed">>]
      [] status = 404 -> [status |-> 404, message |-> <<"Resource not found">>]
      [] status = 422 -> [status |-> 422, message |-> <<"Validation failed">>]
      [] status >= 500 /\ status <= 599 ->
            [status |-> 502, message |-> <<"GitHub is unavailable">>]
      [] OTHER -> [status |-> 500, message |-> <<"An unexpected error occurred">>]

\* ------------------------------------------------------------- responses
NoResp == [status |-> 0, headers |-> {}, body |-> [kind |-> "none"]]

\* new Response(null, { headers: corsHeaders })
OptionsResponse == [status |-> 200, headers |-> corsHeaders, body |-> [kind |-> "null"]]

\* mutant: the error responses carry the content type only
ErrorResponseNoCors(status, message) ==
    [status |-> status, headers |-> { <<"Content-Type", "application/json">> },
     body |-> [kind |-> "error", error |-> message, details |-> {}]]

\* new Response(JSON.stringify({ error }), { status, headers: {...corsHeaders, ...} })
ErrorResponse(status, message) ==
    [status |-> status, headers |-> JsonHeaders,
     body |-> [kind |-> "error", error |-> message, details |-> {}]]

\* the 400 response of a failed validation
InvalidInputResponse(errors) ==
    [status |-> 400, headers |-> JsonHeaders,
     body |-> [kind |-> "error", error |-> <<"Invalid input">>, details |-> errors]]

\* mutant: the success response reuses the headers of the error responses
SuccessResponseCacheable(contents, meta) ==
    [status |-> 200, headers |-> JsonHeaders,
     body |-> [kind |-> "success",
               contents |-> contents,
               default_branch |-> meta.default_branch,
               repository |-> [name |-> meta.name, full_name |-> meta.full_name,
                               private |-> meta.private,
                               default_branch |-> meta.default_branch]]]

\* the success response: status defaults to 200
SuccessResponse(contents, meta) ==
    [status |-> 200, headers |-> SuccessHeaders,
     body |-> [kind |-> "success",
               contents |-> contents,
               default_branch |-> meta.default_branch,
               repository |-> [name |-> meta.name, full_name |-> meta.full_name,
                               private |-> meta.private,
                               default_branch |-> meta.default_branch]]]

NoMeta == [kind |-> "none"]

\* the properties the handler reads of a non-null repoMetadata: a property the
\* parsed value does not have reads as undefined
ReadMeta(value) ==
    IF value.kind = "object"
    THEN [kind |-> "object", name |-> value.name, full_name |-> value.full_name,
          private |-> value.private, default_branch |-> value.default_branch]
    ELSE [kind |-> "object", name |-> Absent, full_name |-> Absent, private |-> Absent,
          default_branch |-> Absent]

\* ------------------------------------------------------------------ state
VARIABLES
    pc,              \* position of the handler invocation
    req,             \* the inbound request
    bodyRead,        \* req.json() was called
    data,            \* validation.data
    user,            \* data.user of supabase.auth.getUser()
    profile,         \* data of the profiles query
    getUserCalls,    \* number of supabase.auth.getUser() calls
    profileLookups,  \* number of profiles queries
    upstream,        \* the fetch() calls issued to api.github.com, in order
    repoResponse,    \* response of the metadata call
    githubResponse,  \* response of the contents call
    repoMetadata,    \* parsed metadata
    thrown,          \* message of the Error caught by the catch block
    resp             \* the Response returned

hvars == <<pc, req, bodyRead, data, user, profile, getUserCalls, profileLookups,
           upstream, repoResponse, githubResponse, repoMetadata, thrown, resp>>

\* state of the RepositorySettingsDialog component
VARIABLES
    repo,                    \* prop
    open,                    \* prop
    showDangerZone,
    isDeleting,
    branches,
    isFetchingBranches,
    showDeleteBranch,
    selectedBranchToDelete,
    isDeletingBranch,
    confirmBranchName,
    repoConfirmInput,        \* the uncontrolled delete-repository input: value and dataset.confirmed
    fetchCalls,              \* fetchBranches calls that have not returned
    fetchSeq,                \* number of fetchBranches calls started
    timers,                  \* pending setTimeout(() => fetchBranches(), 500)
    deleteBranchCall,        \* the handleDeleteBranch call that has not returned
    deleteRepoCall,          \* the handleDeleteRepo call that has not returned
    sent                     \* the latest supabase.functions.invoke call

dvars == <<repo, open, showDangerZone, isDeleting, branches, isFetchingBranches,
           showDeleteBranch, selectedBranchToDelete, isDeletingBranch, confirmBranchName,
           repoConfirmInput, fetchCalls, fetchSeq, timers, deleteBranchCall,
           deleteRepoCall, sent>>

vars == <<hvars, dvars>>

NoRequest == [method |-> "none", body |-> NullBody]

HInit ==
    /\ pc = "idle"
    /\ req = NoRequest
    /\ bodyRead = FALSE
    /\ data = NoData
    /\ user = Absent
    /\ profile = UnsetProfile
    /\ getUserCalls = 0
    /\ profileLookups = 0
    /\ upstream = <<>>
    /\ repoResponse = NoResponse
    /\ githubResponse = NoResponse
    /\ repoMetadata = NoMeta
    /\ thrown = <<>>
    /\ resp = NoResp

\* return new Response(...)
Return(r) ==
    /\ resp' = r
    /\ pc' = "done"

\* throw inside the try block
Throw(message) ==
    /\ thrown' = message
    /\ pc' = "catch"

\* Deno.serve invokes the handler with a request
Receive(r) ==
    /\ pc = "idle"
    /\ req' = r
    /\ pc' = "start"
    /\ UNCHANGED <<bodyRead, data, user, profile, getUserCalls, profileLookups, upstream,
                   repoResponse, githubResponse, repoMetadata, thrown, resp>>
    /\ UNCHANGED dvars

\* if (req.method === 'OPTIONS') return new Response(null, { headers: corsHeaders })
Options ==
    /\ pc = "start"
    /\ req.method = "OPTIONS"
    /\ Return(OptionsResponse)
    /\ UNCHANGED <<req, bodyRead, data, user, profile, getUserCalls, profileLookups,
                   upstream, repoResponse, githubResponse, repoMetadata, thrown>>
    /\ UNCHANGED dvars

\* const body = await req.json()
ReadBody ==
    /\ pc = "start"
    /\ req.method # "OPTIONS"
    /\ bodyRead' = TRUE
    /\ IF req.body = MalformedBody
       THEN /\ Throw(<<"Unexpected token in request body">>)
            /\ UNCHANGED resp
       ELSE /\ pc' = "validate"
            /\ UNCHANGED <<thrown, resp>>
    /\ UNCHANGED <<req, data, user, profile, getUserCalls, profileLookups, upstream,
                   repoResponse, githubResponse, repoMetadata>>
    /\ UNCHANGED dvars

\* getContentsSchema.safeParse(body) and the 400 branch
Validate ==
    /\ pc = "validate"
    /\ IF SchemaErrors(req.body) # {}
       THEN /\ Return(InvalidInputResponse(SchemaErrors(req.body)))
            /\ UNCHANGED data
       ELSE /\ data' = SchemaData(req.body)
            /\ pc' = "getUser"
            /\ UNCHANGED resp
    /\ UNCHANGED <<req, bodyRead, user, profile, getUserCalls, profileLookups, upstream,
                   repoResponse, githubResponse, repoMetadata, thrown>>
    /\ UNCHANGED dvars

\* mutant: the if (!user) branch is missing
GetUserNoGuard(u) ==
    /\ pc = "getUser"
    /\ getUserCalls' = getUserCalls + 1
    /\ user' = u
    /\ pc' = "getProfile"
    /\ UNCHANGED <<req, bodyRead, data, profile, profileLookups, upstream,
                   repoResponse, githubResponse, repoMetadata, thrown, resp>>
    /\ UNCHANGED dvars

\* const { data: { user } } = await supabase.auth.getUser(); the 401 branch
GetUser(u) ==
    /\ pc = "getUser"
    /\ getUserCalls' = getUserCalls + 1
    /\ user' = u
    /\ IF ~Truthy(u)
       THEN Return(ErrorResponse(401, <<"Unauthorized">>))
       ELSE pc' = "getProfile" /\ UNCHANGED resp
    /\ UNCHANGED <<req, bodyRead, data, profile, profileLookups, upstream,
                   repoResponse, githubResponse, repoMetadata, thrown>>
    /\ UNCHANGED dvars

\* mutant: the ownership comparison is made before the missing-username check
GetProfileOwnerFirst(p) ==
    /\ pc = "getProfile"
    /\ profileLookups' = profileLookups + 1
    /\ profile' = p
    /\ IF data.owner # GithubUsername(p)
       THEN Return(ErrorResponse(403, <<"Unauthorized: can only access your own repositories">>))
       ELSE IF ~Truthy(GithubUsername(p))
       THEN Return(ErrorResponse(400, <<"GitHub profile not found">>))
       ELSE pc' = "ownership" /\ UNCHANGED resp
    /\ UNCHANGED <<req, bodyRead, data, user, getUserCalls, upstream,
                   repoResponse, githubResponse, repoMetadata, thrown>>
    /\ UNCHANGED dvars

\* mutant: if (!profile) in place of if (!profile?.github_username)
GetProfileRowOnly(p) ==
    /\ pc = "getProfile"
    /\ profileLookups' = profileLookups + 1
    /\ profile' = p
    /\ IF p.kind # "row"
       THEN Return(ErrorResponse(400, <<"GitHub profile not found">>))
       ELSE pc' = "ownership" /\ UNCHANGED resp
    /\ UNCHANGED <<req, bodyRead, data, user, getUserCalls, upstream,
                   repoResponse, githubResponse, repoMetadata, thrown>>
    /\ UNCHANGED dvars

\* the profiles query and the 400 branch
GetProfile(p) ==
    /\ pc = "getProfile"
    /\ profileLookups' = profileLookups + 1
    /\ profile' = p
    /\ IF ~Truthy(GithubUsername(p))
       THEN Return(ErrorResponse(400, <<"GitHub profile not found">>))
       ELSE pc' = "ownership" /\ UNCHANGED resp
    /\ UNCHANGED <<req, bodyRead, data, user, getUserCalls, upstream,
                   repoResponse, githubResponse, repoMetadata, thrown>>
    /\ UNCHANGED dvars

\* mutant: the ownership check is missing
OwnershipCheckMissing ==
    /\ pc = "ownership"
    /\ pc' = "fetchRepo"
    /\ UNCHANGED <<req, bodyRead, data, user, profile, getUserCalls, profileLookups,
                   upstream, repoResponse, githubResponse, repoMetadata, thrown, resp>>
    /\ UNCHANGED dvars

\* if (owner !== profile.github_username) return 403
OwnershipCheck ==
    /\ pc = "ownership"
    /\ IF data.owner # profile.github_username
       THEN Return(ErrorResponse(403, <<"Unauthorized: can only access your own repositories">>))
       ELSE pc' = "fetchRepo" /\ UNCHANGED resp
    /\ UNCHANGED <<req, bodyRead, data, user, profile, getUserCalls, profileLookups,
                   upstream, repoResponse, githubResponse, repoMetadata, thrown>>
    /\ UNCHANGED dvars

\* fetch(`https://api.github.com/repos/${owner}/${repo}`, { headers })
MetadataCall(d) ==
    [kind |-> "metadata", owner |-> d.owner, repo |-> d.repo, path |-> "", ref |-> Absent,
     bearer |-> d.provider_token]

\* mutant: ref ?? defaultBranch, which keeps an empty ref
EffectiveRefNullish(ref, defaultBranch) ==
    IF ref \in {Absent, Null} THEN defaultBranch ELSE ref

\* const effectiveRef = ref || defaultBranch
EffectiveRef(ref, defaultBranch) == IF Truthy(ref) THEN ref ELSE defaultBranch

\* fetch(`https://api.github.com/repos/${owner}/${repo}/contents/${path}?ref=${effectiveRef}`)
ContentsCall(d, defaultBranch) ==
    [kind |-> "contents", owner |-> d.owner, repo |-> d.repo, path |-> d.path,
     ref |-> EffectiveRef(d.ref, defaultBranch), bearer |-> d.provider_token]

\* message of the TypeError a failed fetch() rejects with: it names the URL
FetchErrorMessage(call) ==
    <<"error sending request for url", call.owner, call.repo, call.path>>

\* mutant: the metadata fetch is skipped when the caller supplied a ref
FetchRepoOnlyWithoutRef ==
    /\ pc = "fetchRepo"
    /\ IF Truthy(data.ref)
       THEN /\ repoMetadata' = ReadMeta(NoMeta)
            /\ pc' = "fetchContents"
            /\ UNCHANGED upstream
       ELSE /\ upstream' = Append(upstream, MetadataCall(data))
            /\ pc' = "awaitRepo"
            /\ UNCHANGED repoMetadata
    /\ UNCHANGED <<req, bodyRead, data, user, profile, getUserCalls, profileLookups,
                   repoResponse, githubResponse, thrown, resp>>
    /\ UNCHANGED dvars

\* the metadata fetch is issued
FetchRepo ==
    /\ pc = "fetchRepo"
    /\ upstream' = Append(upstream, MetadataCall(data))
    /\ pc' = "awaitRepo"
    /\ UNCHANGED <<req, bodyRead, data, user, profile, getUserCalls, profileLookups,
                   repoResponse, githubResponse, repoMetadata, thrown, resp>>
    /\ UNCHANGED dvars

\* the metadata fetch settles: rejection, the !repoResponse.ok branch, or
\* repoResponse.json() and repoMetadata.default_branch
RepoSettles(o) ==
    /\ pc = "awaitRepo"
    /\ IF o = NetworkFailure THEN
            /\ Throw(FetchErrorMessage(upstream[Len(upstream)]))
            /\ UNCHANGED <<repoResponse, repoMetadata, resp>>
       ELSE
            /\ repoResponse' = [status |-> o.status, text |-> o.text]
            /\ IF UpstreamFailed(o) THEN
                    /\ Return(ErrorResponse(sanitizeGitHubError(o.status, o.text).status,
                                            sanitizeGitHubError(o.status, o.text).message))
                    /\ UNCHANGED <<repoMetadata, thrown>>
               ELSE IF ~JsonParse(o.text).ok THEN
                    /\ Throw(JsonParse(o.text).message)
                    /\ UNCHANGED <<repoMetadata, resp>>
               ELSE IF JsonParse(o.text).value.kind = "null" THEN
                    /\ Throw(<<"Cannot read properties of null (reading 'default_branch')">>)
                    /\ repoMetadata' = JsonParse(o.text).value
                    /\ UNCHANGED resp
               ELSE
                    /\ repoMetadata' = ReadMeta(JsonParse(o.text).value)
                    /\ pc' = "fetchContents"
                    /\ UNCHANGED <<thrown, resp>>
    /\ UNCHANGED <<req, bodyRead, data, user, profile, getUserCalls, profileLookups,
                   upstream, githubResponse>>
    /\ UNCHANGED dvars

\* the contents fetch is issued with the effective ref
FetchContents ==
    /\ pc = "fetchContents"
    /\ upstream' = Append(upstream, ContentsCall(data, repoMetadata.default_branch))
    /\ pc' = "awaitContents"
    /\ UNCHANGED <<req, bodyRead, data, user, profile, getUserCalls, profileLookups,
                   repoResponse, githubResponse, repoMetadata, thrown, resp>>
    /\ UNCHANGED dvars

\* the contents fetch settles: rejection, the !githubResponse.ok branch, or
\* githubResponse.json() and the success response
ContentsSettles(o) ==
    /\ pc = "awaitContents"
    /\ IF o = NetworkFailure THEN
            /\ Throw(FetchErrorMessage(upstream[Len(upstream)]))
            /\ UNCHANGED <<githubResponse, resp>>
       ELSE
            /\ githubResponse' = [status |-> o.status, text |-> o.text]
            /\ IF UpstreamFailed(o) THEN
                    /\ Return(ErrorResponse(sanitizeGitHubError(o.status, o.text).status,
                                            sanitizeGitHubError(o.status, o.text).message))
                    /\ UNCHANGED thrown
               ELSE IF ~JsonParse(o.text).ok THEN
                    /\ Throw(JsonParse(o.text).message)
                    /\ UNCHANGED resp
               ELSE
                    /\ Return(SuccessResponse(JsonParse(o.text).value, repoMetadata))
                    /\ UNCHANGED thrown
    /\ UNCHANGED <<req, bodyRead, data, user, profile, getUserCalls, profileLookups,
                   upstream, repoResponse, repoMetadata>>
    /\ UNCHANGED dvars

\* catch (error): status 500 with error.message
CatchBlock ==
    /\ pc = "catch"
    /\ Return(ErrorResponse(500, thrown))
    /\ UNCHANGED <<req, bodyRead, data, user, profile, getUserCalls, profileLookups,
                   upstream, repoResponse, githubResponse, repoMetadata, thrown>>
    /\ UNCHANGED dvars

HNext ==
    \/ \E r \in Requests : Receive(r)
    \/ Options
    \/ ReadBody
    \/ Validate
    \/ \E u \in Users : GetUser(u)
    \/ \E p \in Profiles : GetProfile(p)
    \/ OwnershipCheck
    \/ FetchRepo
    \/ \E o \in UpstreamOutcomes : RepoSettles(o)
    \/ FetchContents
    \/ \E o \in UpstreamOutcomes : ContentsSettles(o)
    \/ CatchBlock

\* ================================================ RepositorySettingsDialog
\* bounds of the dialog model
\* number of fetchBranches calls started or scheduled in one behaviour
MaxFetches == 2

\* the repo prop: null or a Repository
NoRepo == [kind |-> "null"]
RepoProps ==
    {NoRepo} \cup [kind : {"repo"}, name : {"demo"}, full_name : {"alice/demo"},
                  default_branch : Branches]

\* repo?.default_branch and repo?.name
DefaultBranchOf(r) == IF r.kind = "repo" THEN r.default_branch ELSE Absent
NameOf(r) == IF r.kind = "repo" THEN r.name ELSE Absent

\* repo.full_name.split('/')
OwnerPart(fullName) == IF fullName = "alice/demo" THEN "alice" ELSE Absent
RepoPart(fullName) == IF fullName = "alice/demo" THEN "demo" ELSE Absent

\* session?.provider_token of supabase.auth.getSession()
SessionTokens == {Absent, "tok"}

\* texts the user can type in the branch and the repository confirmation fields
BranchTexts == {"", "main", "dev"}
RepoTexts == {"", "demo"}

\* data.branches of a get-repo-branches response, as the names
BranchLists == { <<"main">>, <<"main", "dev">> }

\* how an awaited supabase.functions.invoke settles for fetchBranches
FetchResults ==
    {[kind |-> "error"], [kind |-> "apiError"], [kind |-> "unexpected"],
     [kind |-> "throws"]}
    \cup [kind : {"branches"}, names : BranchLists]

\* the elements of a sequence
Range(s) == {s[i] : i \in DOMAIN s}

NoCall == [pc |-> "idle"]

NothingSent == [fn |-> "none"]

EmptyInput == [value |-> "", confirmed |-> FALSE]

DInit ==
    /\ repo = NoRepo
    /\ open = FALSE
    /\ showDangerZone = FALSE
    /\ isDeleting = FALSE
    /\ branches = <<>>
    /\ isFetchingBranches = FALSE
    /\ showDeleteBranch = FALSE
    /\ selectedBranchToDelete = ""
    /\ isDeletingBranch = FALSE
    /\ confirmBranchName = ""
    /\ repoConfirmInput = EmptyInput
    /\ fetchCalls = {}
    /\ fetchSeq = 0
    /\ timers = <<>>
    /\ deleteBranchCall = NoCall
    /\ deleteRepoCall = NoCall
    /\ sent = NothingSent

\* ---- fetchBranches
\* fetchBranches() called from a render whose repo prop is r: the synchronous part,
\* up to await supabase.auth.getSession()
FetchBranchesStarts(fullName) ==
    IF fullName = Absent
    THEN UNCHANGED <<isFetchingBranches, fetchCalls, fetchSeq>>
    ELSE /\ isFetchingBranches' = TRUE
         /\ fetchSeq' = fetchSeq + 1
         /\ fetchCalls' = fetchCalls \cup
                {[id |-> fetchSeq + 1, pc |-> "getSession", full_name |-> fullName]}

\* the useEffect on [repo, open], run with the props r and o of the new render
ResetOnOpen(r, o) ==
    IF r.kind = "repo" /\ o
    THEN /\ fetchSeq < MaxFetches
         /\ branches' = <<>>
         /\ showDeleteBranch' = FALSE
         /\ selectedBranchToDelete' = ""
         /\ confirmBranchName' = ""
         /\ FetchBranchesStarts(r.full_name)
    ELSE UNCHANGED <<branches, showDeleteBranch, selectedBranchToDelete,
                     confirmBranchName, isFetchingBranches, fetchCalls, fetchSeq>>

\* the parent opens the dialog on a repository
OpenDialog(r) ==
    /\ ~open
    /\ open' = TRUE
    /\ repo' = r
    /\ ResetOnOpen(r, TRUE)
    /\ UNCHANGED <<showDangerZone, isDeleting, isDeletingBranch, repoConfirmInput, timers,
                   deleteBranchCall, deleteRepoCall, sent>>
    /\ UNCHANGED hvars

\* onOpenChange(false) from the Cancel button or the Dialog: the content unmounts
CloseDialog ==
    /\ open
    /\ open' = FALSE
    /\ repoConfirmInput' = EmptyInput
    /\ UNCHANGED <<repo, showDangerZone, isDeleting, branches, isFetchingBranches,
                   showDeleteBranch, selectedBranchToDelete, isDeletingBranch,
                   confirmBranchName, fetchCalls, fetchSeq, timers, deleteBranchCall,
                   deleteRepoCall, sent>>
    /\ UNCHANGED hvars

\* the parent re-renders with a new repo object (its refresh after onUpdate)
RepoPropChanges(r) ==
    /\ repo' = r
    /\ ResetOnOpen(r, open)
    /\ UNCHANGED <<open, showDangerZone, isDeleting, isDeletingBranch, repoConfirmInput,
                   timers, deleteBranchCall, deleteRepoCall, sent>>
    /\ UNCHANGED hvars

\* getSession resolves in a fetchBranches call: without a provider token the call
\* returns through finally, otherwise get-repo-branches is invoked
FetchBranchesGetSession(c, token) ==
    /\ c \in fetchCalls
    /\ c.pc = "getSession"
    /\ IF ~Truthy(token)
       THEN /\ fetchCalls' = fetchCalls \ {c}
            /\ isFetchingBranches' = FALSE
            /\ UNCHANGED sent
       ELSE /\ sent' = [fn |-> "get-repo-branches",
                       repositoryName |-> RepoPart(c.full_name),
                       provider_token |-> token]
            /\ fetchCalls' = (fetchCalls \ {c}) \cup {[c EXCEPT !.pc = "invoke"]}
            /\ UNCHANGED isFetchingBranches
    /\ UNCHANGED <<repo, open, showDangerZone, isDeleting, branches, showDeleteBranch,
                   selectedBranchToDelete, isDeletingBranch, confirmBranchName,
                   repoConfirmInput, fetchSeq, timers, deleteBranchCall, deleteRepoCall>>
    /\ UNCHANGED hvars

\* the get-repo-branches invocation settles
FetchBranchesSettles(c, result) ==
    /\ c \in fetchCalls
    /\ c.pc = "invoke"
    /\ branches' = CASE result.kind = "branches" -> result.names
                     [] result.kind \in {"unexpected", "throws"} -> <<>>
                     [] OTHER -> branches
    /\ isFetchingBranches' = FALSE
    /\ fetchCalls' = fetchCalls \ {c}
    /\ UNCHANGED <<repo, open, showDangerZone, isDeleting, showDeleteBranch,
                   selectedBranchToDelete, isDeletingBranch, confirmBranchName,
                   repoConfirmInput, fetchSeq, timers, deleteBranchCall, deleteRepoCall,
                   sent>>
    /\ UNCHANGED hvars

\* the oldest setTimeout(() => fetchBranches(), 500) fires: fetchBranches of the
\* render that scheduled it
TimerFires ==
    /\ timers # <<>>
    /\ fetchSeq < MaxFetches
    /\ timers' = Tail(timers)
    /\ FetchBranchesStarts(Head(timers))
    /\ UNCHANGED <<repo, open, showDangerZone, isDeleting, branches, showDeleteBranch,
                   selectedBranchToDelete, isDeletingBranch, confirmBranchName,
                   repoConfirmInput, deleteBranchCall, deleteRepoCall, sent>>
    /\ UNCHANGED hvars

\* ---- delete branch
\* onClick of the "Delete Branch" / "Cancel" toggle
ToggleDeleteBranch ==
    /\ open
    /\ showDeleteBranch' = ~showDeleteBranch
    /\ UNCHANGED <<repo, open, showDangerZone, isDeleting, branches, isFetchingBranches,
                   selectedBranchToDelete, isDeletingBranch, confirmBranchName,
                   repoConfirmInput, fetchCalls, fetchSeq, timers, deleteBranchCall,
                   deleteRepoCall, sent>>
    /\ UNCHANGED hvars

\* the SelectItems of the delete-branch Select
DeletableBranches ==
    IF isFetchingBranches THEN {}
    ELSE {b \in Range(branches) : b # DefaultBranchOf(repo)}

\* onValueChange of the delete-branch Select
SelectBranchToDelete(b) ==
    /\ open
    /\ showDeleteBranch
    /\ b \in DeletableBranches
    /\ selectedBranchToDelete' = b
    /\ confirmBranchName' = ""
    /\ UNCHANGED <<repo, open, showDangerZone, isDeleting, branches, isFetchingBranches,
                   showDeleteBranch, isDeletingBranch, repoConfirmInput, fetchCalls,
                   fetchSeq, timers, deleteBranchCall, deleteRepoCall, sent>>
    /\ UNCHANGED hvars

\* onChange of the branch confirmation Input
TypeConfirmBranchName(t) ==
    /\ open
    /\ showDeleteBranch
    /\ selectedBranchToDelete # ""
    /\ confirmBranchName' = t
    /\ UNCHANGED <<repo, open, showDangerZone, isDeleting, branches, isFetchingBranches,
                   showDeleteBranch, selectedBranchToDelete, isDeletingBranch,
                   repoConfirmInput, fetchCalls, fetchSeq, timers, deleteBranchCall,
                   deleteRepoCall, sent>>
    /\ UNCHANGED hvars

\* the first line of handleDeleteBranch lets the call go on
DeleteBranchGuardNoConfirm == repo.kind = "repo" /\ selectedBranchToDelete # ""

DeleteBranchGuard ==
    /\ repo.kind = "repo"
    /\ selectedBranchToDelete # ""
    /\ confirmBranchName = selectedBranchToDelete

\* handleDeleteBranch is invoked from the open dialog: the early return, or
\* setIsDeletingBranch(true) and the call suspends on getSession with the values
\* of its render
HandleDeleteBranch ==
    /\ open
    /\ deleteBranchCall = NoCall
    /\ fetchSeq + Len(timers) < MaxFetches
    /\ IF ~DeleteBranchGuard
       THEN UNCHANGED <<isDeletingBranch, deleteBranchCall>>
       ELSE /\ isDeletingBranch' = TRUE
            /\ deleteBranchCall' = [pc |-> "getSession", full_name |-> repo.full_name,
                                    branch |-> selectedBranchToDelete,
                                    confirm |-> confirmBranchName]
    /\ UNCHANGED <<repo, open, showDangerZone, isDeleting, branches, isFetchingBranches,
                   showDeleteBranch, selectedBranchToDelete, confirmBranchName,
                   repoConfirmInput, fetchCalls, fetchSeq, timers, deleteRepoCall, sent>>
    /\ UNCHANGED hvars

\* getSession resolves and delete-branch is invoked
DeleteBranchGetSession(token) ==
    /\ deleteBranchCall.pc = "getSession"
    /\ sent' = [fn |-> "delete-branch",
                owner |-> OwnerPart(deleteBranchCall.full_name),
                repo |-> RepoPart(deleteBranchCall.full_name),
                branch |-> deleteBranchCall.branch,
                provider_token |-> token]
    /\ deleteBranchCall' = [deleteBranchCall EXCEPT !.pc = "invoke"]
    /\ UNCHANGED <<repo, open, showDangerZone, isDeleting, branches, isFetchingBranches,
                   showDeleteBranch, selectedBranchToDelete, isDeletingBranch,
                   confirmBranchName, repoConfirmInput, fetchCalls, fetchSeq, timers,
                   deleteRepoCall>>
    /\ UNCHANGED hvars

\* the delete-branch invocation settles: on error the toast, otherwise the panel is
\* reset, a refetch is scheduled and onUpdate() is called; finally in both cases
DeleteBranchSettles(failed) ==
    /\ deleteBranchCall.pc = "invoke"
    /\ IF failed
       THEN UNCHANGED <<showDeleteBranch, selectedBranchToDelete, confirmBranchName, timers>>
       ELSE /\ showDeleteBranch' = FALSE
            /\ selectedBranchToDelete' = ""
            /\ confirmBranchName' = ""
            /\ timers' = Append(timers, deleteBranchCall.full_name)
    /\ isDeletingBranch' = FALSE
    /\ deleteBranchCall' = NoCall
    /\ UNCHANGED <<repo, open, showDangerZone, isDeleting, branches, isFetchingBranches,
                   repoConfirmInput, fetchCalls, fetchSeq, deleteRepoCall, sent>>
    /\ UNCHANGED hvars

\* ---- delete repository
\* onClick of the "Delete Repository" / "Cancel" toggle: the confirmation Input
\* mounts empty or unmounts
ToggleDangerZone ==
    /\ open
    /\ showDangerZone' = ~showDangerZone
    /\ repoConfirmInput' = EmptyInput
    /\ UNCHANGED <<repo, open, isDeleting, branches, isFetchingBranches, showDeleteBranch,
                   selectedBranchToDelete, isDeletingBranch, confirmBranchName, fetchCalls,
                   fetchSeq, timers, deleteBranchCall, deleteRepoCall, sent>>
    /\ UNCHANGED hvars

\* onChange of the repository confirmation Input: it sets or deletes
\* dataset.confirmed
TypeRepoConfirm(t) ==
    /\ open
    /\ showDangerZone
    /\ repoConfirmInput' = [value |-> t, confirmed |-> (t = NameOf(repo))]
    /\ UNCHANGED <<repo, open, showDangerZone, isDeleting, branches, isFetchingBranches,
                   showDeleteBranch, selectedBranchToDelete, isDeletingBranch,
                   confirmBranchName, fetchCalls, fetchSeq, timers, deleteBranchCall,
                   deleteRepoCall, sent>>
    /\ UNCHANGED hvars

\* onClick of "I understand, delete this repository" (disabled={isDeleting}):
\* handleDeleteRepo up to await getSession
HandleDeleteRepo ==
    /\ open
    /\ showDangerZone
    /\ ~isDeleting
    /\ deleteRepoCall = NoCall
    /\ IF repo.kind # "repo"
       THEN UNCHANGED <<isDeleting, deleteRepoCall>>
       ELSE /\ isDeleting' = TRUE
            /\ deleteRepoCall' = [pc |-> "getSession", full_name |-> repo.full_name,
                                  name |-> repo.name,
                                  typed |-> repoConfirmInput.value]
    /\ UNCHANGED <<repo, open, showDangerZone, branches, isFetchingBranches,
                   showDeleteBranch, selectedBranchToDelete, isDeletingBranch,
                   confirmBranchName, repoConfirmInput, fetchCalls, fetchSeq, timers,
                   deleteBranchCall, sent>>
    /\ UNCHANGED hvars

\* getSession resolves and delete-repo is invoked
DeleteRepoGetSession(token) ==
    /\ deleteRepoCall.pc = "getSession"
    /\ sent' = [fn |-> "delete-repo",
                owner |-> OwnerPart(deleteRepoCall.full_name),
                repo |-> RepoPart(deleteRepoCall.full_name),
                provider_token |-> token]
    /\ deleteRepoCall' = [deleteRepoCall EXCEPT !.pc = "invoke"]
    /\ UNCHANGED <<repo, open, showDangerZone, isDeleting, branches, isFetchingBranches,
                   showDeleteBranch, selectedBranchToDelete, isDeletingBranch,
                   confirmBranchName, repoConfirmInput, fetchCalls, fetchSeq, timers,
                   deleteBranchCall>>
    /\ UNCHANGED hvars

\* the delete-repo invocation settles: on success onUpdate() and
\* onOpenChange(false); finally setIsDeleting(false)
DeleteRepoSettles(failed) ==
    /\ deleteRepoCall.pc = "invoke"
    /\ IF failed
       THEN UNCHANGED <<open, repoConfirmInput>>
       ELSE /\ open' = FALSE
            /\ repoConfirmInput' = EmptyInput
    /\ isDeleting' = FALSE
    /\ deleteRepoCall' = NoCall
    /\ UNCHANGED <<repo, showDangerZone, branches, isFetchingBranches, showDeleteBranch,
                   selectedBranchToDelete, isDeletingBranch, confirmBranchName, fetchCalls,
                   fetchSeq, timers, deleteBranchCall, sent>>
    /\ UNCHANGED hvars

DNext ==
    \/ \E r \in RepoProps : OpenDialog(r)
    \/ CloseDialog
    \/ \E r \in RepoProps : RepoPropChanges(r)
    \/ \E c \in fetchCalls, token \in SessionTokens : FetchBranchesGetSession(c, token)
    \/ \E c \in fetchCalls, result \in FetchResults : FetchBranchesSettles(c, result)
    \/ TimerFires
    \/ ToggleDeleteBranch
    \/ \E b \in Branches : SelectBranchToDelete(b)
    \/ \E t \in BranchTexts : TypeConfirmBranchName(t)
    \/ HandleDeleteBranch
    \/ \E token \in SessionTokens : DeleteBranchGetSession(token)
    \/ \E failed \in BOOLEAN : DeleteBranchSettles(failed)
    \/ ToggleDangerZone
    \/ \E t \in RepoTexts : TypeRepoConfirm(t)
    \/ HandleDeleteRepo
    \/ \E token \in SessionTokens : DeleteRepoGetSession(token)
    \/ \E failed \in BOOLEAN : DeleteRepoSettles(failed)

\* one invocation of the get-repo-contents handler
\* the state after construction: no request received, the dialog closed
Init == HInit /\ DInit

Spec == Init /\ [][HNext]_vars

\* the settings dialog
SpecDialog == Init /\ [][DNext]_vars

\* ------------------------------------------------------------------ claims

\* the caller's identity was resolved to a github_username
Resolved == Truthy(GithubUsername(profile))

\* C1: once the identity is resolved and the validated owner differs from the
\* resolved github_username, no upstream call is ever issued and the response is
\* 403 {error: "Unauthorized: can only access your own repositories"}.
C1_OwnerMismatchForbidden ==
    (Resolved /\ data.owner # GithubUsername(profile)) =>
        /\ upstream = <<>>
        /\ pc \in {"ownership", "done"}
        /\ pc = "done" =>
              /\ resp.status = 403
              /\ resp.body.kind = "error"
              /\ resp.body.error = <<"Unauthorized: can only access your own repositories">>

C1_Witness ==
    /\ pc = "done"
    /\ data.owner = "bob"
    /\ GithubUsername(profile) = "alice"
    /\ resp.status = 403
    /\ upstream = <<>>

\* the request body parsed to an object whose provider_token is absent or empty
TokenMissing ==
    /\ req.method = "POST"
    /\ req.body.kind = "object"
    /\ req.body.provider_token \in {Absent, ""}

\* C2: a request whose body has provider_token absent or empty is answered 400,
\* and neither an identity lookup nor an upstream fetch is made.
C2_MissingTokenRejected ==
    TokenMissing =>
        /\ getUserCalls = 0
        /\ profileLookups = 0
        /\ upstream = <<>>
        /\ pc \in {"start", "validate", "done"}
        /\ pc = "done" => resp.status = 400 /\ resp.body.kind = "error"

C2_Witness ==
    /\ pc = "done"
    /\ req.method = "POST"
    /\ req.body.kind = "object"
    /\ req.body.owner = "alice"
    /\ req.body.repo = "demo"
    /\ req.body.provider_token = ""
    /\ resp.status = 400
    /\ getUserCalls = 0

\* C3: no failure response carries, in its error message, a fragment of an
\* upstream response body or the provider_token.
C3_NoLeakInFailure ==
    (pc = "done" /\ resp.body.kind = "error") =>
        /\ ~ContainsFragment(resp.body.error, repoResponse.text)
        /\ ~ContainsFragment(resp.body.error, githubResponse.text)
        /\ ~ContainsFragment(resp.body.error, <<data.provider_token>>)

\* C4: with valid input, when getUser yields no user the response is
\* 401 {error: "Unauthorized"} and neither the profile lookup nor an upstream
\* call is made.
C4_NoSessionUnauthorized ==
    (getUserCalls > 0 /\ ~Truthy(user)) =>
        /\ profileLookups = 0
        /\ upstream = <<>>
        /\ pc = "done"
        /\ resp.status = 401
        /\ resp.body.kind = "error"
        /\ resp.body.error = <<"Unauthorized">>
        /\ resp.body.details = {}

C4_Witness ==
    /\ pc = "done"
    /\ getUserCalls = 1
    /\ user = Null
    /\ resp.status = 401
    /\ profileLookups = 0

\* C5: with valid input and a session, when the profile is missing or its
\* github_username is null or empty the response is 400 and no upstream call is
\* made, whatever the owner.
C5_ProfileIncompleteFailsClosed ==
    (profileLookups > 0 /\ ~Truthy(GithubUsername(profile))) =>
        /\ upstream = <<>>
        /\ pc = "done"
        /\ resp.status = 400
        /\ resp.body.kind = "error"
        /\ resp.body.error = <<"GitHub profile not found">>

C5_Witness ==
    /\ pc = "done"
    /\ profile.kind = "row"
    /\ profile.github_username = ""
    /\ data.owner = "bob"
    /\ resp.status = 400
    /\ upstream = <<>>

\* the response sanitizeGitHubError prescribes for an upstream response
Sanitized(response) ==
    [status |-> sanitizeGitHubError(response.status, response.text).status,
     headers |-> JsonHeaders,
     body |-> [kind |-> "error",
               error |-> sanitizeGitHubError(response.status, response.text).message,
               details |-> {}]]

\* C6: a non-2xx response to the metadata call or to the contents call ends the
\* invocation at once with the status and message of sanitizeGitHubError; the
\* failed call is the last upstream call and was issued once.
C6_UpstreamFailureEndsInvocation ==
    /\ (repoResponse # NoResponse /\ ~Ok(repoResponse.status)) =>
          /\ pc = "done"
          /\ resp = Sanitized(repoResponse)
          /\ Len(upstream) = 1
          /\ upstream[1].kind = "metadata"
    /\ (githubResponse # NoResponse /\ ~Ok(githubResponse.status)) =>
          /\ pc = "done"
          /\ resp = Sanitized(githubResponse)
          /\ Len(upstream) = 2
          /\ upstream[1].kind = "metadata"
          /\ upstream[2].kind = "contents"

C6_Witness ==
    /\ pc = "done"
    /\ githubResponse.status = 404
    /\ resp.status = 404
    /\ Len(upstream) = 2

\* C7: every response carries the CORS headers, every finished invocation has a
\* response, and an OPTIONS request is answered without reading the body and
\* without an identity or upstream call.
C7_CorsOnEveryResponse ==
    /\ pc = "done" => resp # NoResp
    /\ resp # NoResp => corsHeaders \subseteq resp.headers
    /\ req.method = "OPTIONS" =>
          /\ ~bodyRead
          /\ getUserCalls = 0
          /\ profileLookups = 0
          /\ upstream = <<>>
          /\ pc \in {"start", "done"}

C7_Witness ==
    /\ pc = "done"
    /\ resp.status = 500
    /\ Len(upstream) = 2
    /\ corsHeaders \subseteq resp.headers

\* both upstream calls were answered 2xx
BothOk ==
    /\ repoResponse # NoResponse
    /\ Ok(repoResponse.status)
    /\ githubResponse # NoResponse
    /\ Ok(githubResponse.status)

\* C8 as stated: whenever both upstream calls return 2xx the response is the
\* 200 success response.
C8_Original ==
    (pc = "done" /\ BothOk) => (resp.status = 200 /\ resp.body.kind = "success")

\* C8 amended: when both upstream calls return 2xx with bodies that parse as
\* JSON, the response is 200 with the cache-disabling headers; contents is the
\* parsed contents payload, name, full_name and private are those of the
\* metadata, and both default_branch fields are the metadata's default branch.
C8_SuccessResponse ==
    (pc = "done" /\ BothOk /\ JsonParse(repoResponse.text).ok
        /\ JsonParse(githubResponse.text).ok) =>
        LET meta == ReadMeta(JsonParse(repoResponse.text).value)
        IN  /\ resp.status = 200
            /\ NoCacheHeaders \subseteq resp.headers
            /\ resp.body.kind = "success"
            /\ resp.body.contents = JsonParse(githubResponse.text).value
            /\ resp.body.default_branch = meta.default_branch
            /\ resp.body.repository.name = meta.name
            /\ resp.body.repository.full_name = meta.full_name
            /\ resp.body.repository.private = meta.private
            /\ resp.body.repository.default_branch = meta.default_branch
            /\ data.owner = GithubUsername(profile)

C8_Witness ==
    /\ pc = "done"
    /\ BothOk
    /\ data.ref = "dev"
    /\ resp.status = 200
    /\ resp.body.kind = "success"
    /\ resp.body.default_branch = "main"
    /\ resp.body.repository.default_branch = "main"
    /\ resp.body.contents = [kind |-> "array", items |-> <<[name |-> "README.md"]>>]

\* the confirmation field holds exactly the selected branch, and one is selected
BranchConfirmed ==
    /\ repo.kind = "repo"
    /\ selectedBranchToDelete # ""
    /\ confirmBranchName = selectedBranchToDelete

\* C9: handleDeleteBranch invoked in a state where the typed confirmation is not
\* exactly the selected branch (or none is selected) changes nothing and sends
\* nothing; a call that goes on was invoked with the confirmation equal to the
\* selected branch, and the delete-branch request it sends names that branch.
C9_DeleteBranchNeedsConfirmation ==
    [][ /\ (HandleDeleteBranch /\ ~BranchConfirmed) => UNCHANGED dvars
        /\ (deleteBranchCall = NoCall /\ deleteBranchCall' # NoCall) =>
              /\ BranchConfirmed
              /\ deleteBranchCall'.branch = selectedBranchToDelete
              /\ deleteBranchCall'.confirm = confirmBranchName
        /\ (sent'.fn = "delete-branch" /\ sent' # sent) =>
              /\ deleteBranchCall.pc = "getSession"
              /\ deleteBranchCall.confirm = deleteBranchCall.branch
              /\ deleteBranchCall.branch # ""
              /\ sent'.branch = deleteBranchCall.branch
      ]_vars

C9_Witness ==
    /\ sent.fn = "delete-branch"
    /\ sent.branch = "dev"
    /\ deleteBranchCall.pc = "invoke"
    /\ deleteBranchCall.confirm = "dev"

\* C10: a delete-repo request is sent only by a call that was started with the
\* repository name typed in the confirmation field.
C10_DeleteRepoNeedsConfirmation ==
    (deleteRepoCall.pc = "invoke" /\ sent.fn = "delete-repo") =>
        deleteRepoCall.typed = deleteRepoCall.name

\* the body was read and parsed, and the schema rejects it
InputInvalid ==
    /\ bodyRead
    /\ req.body # MalformedBody
    /\ SchemaErrors(req.body) # {}

\* C11: the steps run in the order validation, getUser, profile lookup, ownership
\* check, metadata call, contents call, each at most once and only after every
\* earlier step succeeded; the response of a finished invocation is the one of the
\* first failing step: 400 invalid input over 401 over 400 missing profile over
\* 403 over an upstream failure.
C11_FirstFailureDecides ==
    /\ getUserCalls <= 1 /\ profileLookups <= 1 /\ Len(upstream) <= 2
    /\ getUserCalls > 0 => (bodyRead /\ req.body.kind = "object" /\ SchemaErrors(req.body) = {})
    /\ profileLookups > 0 => (getUserCalls = 1 /\ Truthy(user))
    /\ upstream # <<>> =>
          (profileLookups = 1 /\ Resolved /\ data.owner = GithubUsername(profile))
    /\ Len(upstream) = 2 =>
          /\ upstream[1].kind = "metadata"
          /\ upstream[2].kind = "contents"
          /\ Ok(repoResponse.status)
    /\ (pc = "done" /\ req.method = "POST" /\ req.body # MalformedBody) =>
          IF InputInvalid THEN
              /\ resp.status = 400
              /\ resp.body.error = <<"Invalid input">>
              /\ getUserCalls = 0 /\ profileLookups = 0 /\ upstream = <<>>
          ELSE IF ~Truthy(user) THEN
              /\ resp.status = 401
              /\ profileLookups = 0 /\ upstream = <<>>
          ELSE IF ~Resolved THEN
              /\ resp.status = 400
              /\ resp.body.error = <<"GitHub profile not found">>
              /\ upstream = <<>>
          ELSE IF data.owner # GithubUsername(profile) THEN
              /\ resp.status = 403
              /\ upstream = <<>>
          ELSE IF repoResponse # NoResponse /\ ~Ok(repoResponse.status) THEN
              /\ resp = Sanitized(repoResponse)
              /\ Len(upstream) = 1
          ELSE TRUE

\* invalid input (empty token) and an owner no profile matches hold at once: the
\* response is the 400 of the validation
C11_Witness ==
    /\ pc = "done"
    /\ req.method = "POST"
    /\ req.body.kind = "object"
    /\ req.body.owner = "bob"
    /\ req.body.repo = "demo"
    /\ req.body.provider_token = ""
    /\ resp.status = 400
    /\ resp.body.error = <<"Invalid input">>
    /\ getUserCalls = 0

\* the invocation went past the ownership guard
PassedGuard ==
    /\ Resolved
    /\ data.owner = GithubUsername(profile)
    /\ pc \notin {"ownership", "fetchRepo"}

\* the metadata response is 2xx and its body is JSON other than null
MetadataRead ==
    /\ repoResponse # NoResponse
    /\ Ok(repoResponse.status)
    /\ JsonParse(repoResponse.text).ok
    /\ JsonParse(repoResponse.text).value.kind # "null"

C13_ContentsAfterMetadata ==
    /\ pc = "awaitRepo" => (Len(upstream) = 1 /\ repoResponse = NoResponse)
    /\ pc = "awaitContents" => (Len(upstream) = 2 /\ githubResponse = NoResponse)
    /\ Len(upstream) = 2 =>
          /\ MetadataRead
          /\ repoMetadata = ReadMeta(JsonParse(repoResponse.text).value)
          /\ upstream[2].kind = "contents"
          /\ upstream[2].ref =
                IF data.ref \notin {Absent, ""}
                THEN data.ref
                ELSE ReadMeta(JsonParse(repoResponse.text).value).default_branch

C13_Witness ==
    /\ pc = "awaitContents"
    /\ data.ref = ""
    /\ repoResponse.status = 200
    /\ Len(upstream) = 2
    /\ upstream[2].ref = "main"

\* C14: every request the dialog sends carries a non-empty provider_token.
C14_EveryRequestCarriesToken ==
    sent # NothingSent => Truthy(sent.provider_token)

\* C15: the step that sends a delete-branch request names a branch other than
\* the default_branch of the repo prop at that moment.
C15_NeverDeletesDefaultBranch ==
    [][ (deleteBranchCall.pc = "getSession" /\ deleteBranchCall'.pc = "invoke") =>
            sent'.branch # DefaultBranchOf(repo')
      ]_vars

\* a get-repo-branches request has been sent and has not settled
FetchInFlight == \E c \in fetchCalls : c.pc = "invoke"

\* C16: every step leaves isFetchingBranches true if a get-repo-branches request
\* is in flight after it, and a response that changes branches is the response
\* of the most recently started fetchBranches call.
C16_FetchingFlagAndLatestResponse ==
    [][ /\ FetchInFlight' => isFetchingBranches'
        /\ \A c \in fetchCalls \ fetchCalls' :
              (c.pc = "invoke" /\ branches' # branches) => c.id = fetchSeq
      ]_vars

====
